---- MODULE Spec2Model ----
(***************************************************************************)
(* The two command handlers of the repository as one state machine:        *)
(*   upgrade cluster   (package cluster, func run)                         *)
(*   revoke user ROLE  (package user,    func run)                         *)
(* One process runs one command from its first statement to termination.   *)
(* Every remote call, prompt and library call that can fail is a step      *)
(* whose outcome is drawn from a small set.                                *)
(*                                                                         *)
(* Text that the code splits, parses or formats (the node drain grace      *)
(* period, cluster keys, user names) is a sequence of one-character        *)
(* strings; text that is only compared or extended (versions, roles,       *)
(* dates) is a string.                                                     *)
(***************************************************************************)
EXTENDS Integers, Sequences, FiniteSets, TLC

VARIABLES
    cmd,                  \* which command this process runs
    interactive,          \* interactive.Enabled()
    pc,                   \* position in run
    exitCode,             \* process exit status, Running until it terminates
    exitAt,               \* the position at which the run terminated
    conn,                 \* the OCM connection: "none", "open", "closed"
    calls,                \* remote mutations sent, in order
    policies,             \* upgrade policies the service holds for the cluster
    cluster,              \* the record ocm.GetCluster returned
    scheduledUpgrade,     \* what upgrades.GetScheduledUpgrade returned
    availableUpgrades,    \* what versions.GetAvailableUpgrades returned
    version,              \* local version
    nextRun,              \* local nextRun
    gpFlag,               \* args.nodeDrainGracePeriod
    gpChanged,            \* cmd.Flags().Changed("node-drain-grace-period")
    nodeDrainGracePeriod, \* local nodeDrainGracePeriod
    nodeDrainValue,       \* local nodeDrainValue
    role,                 \* local role (revoke user)
    isRoleValid,          \* local isRoleValid (revoke user)
    confirmed             \* what confirm.Confirm answered: "unasked", "yes", "no"

vars == <<cmd, interactive, pc, exitCode, exitAt, conn, calls, policies, cluster,
          scheduledUpgrade, availableUpgrades, version, nextRun, gpFlag, gpChanged,
          nodeDrainGracePeriod, nodeDrainValue, role, isRoleValid, confirmed>>

(***************************************************************************)
(* Bounds                                                                  *)
(***************************************************************************)
\* The largest node drain grace period, in minutes, a cluster record holds.
MaxStoredMinutes == 125

(***************************************************************************)
(* Values                                                                  *)
(***************************************************************************)
\* exitCode before the process has terminated: no status yet.
Running == 0 - 1
Nil     == [nil |-> TRUE]

Range(s) == {s[i] : i \in 1..Len(s)}

Digits == <<"0", "1", "2", "3", "4", "5", "6", "7", "8", "9">>

Letters == {"a", "b", "c", "d", "e", "f", "g", "h", "i", "j", "k", "l", "m",
            "n", "o", "p", "q", "r", "s", "t", "u", "v", "w", "x", "y", "z",
            "A", "B", "C", "D", "E", "F", "G", "H", "I", "J", "K", "L", "M",
            "N", "O", "P", "Q", "R", "S", "T", "U", "V", "W", "X", "Y", "Z"}

(***************************************************************************)
(* Text helpers: Go's strings.Split, strconv.ParseFloat, fmt.Sprintf       *)
(***************************************************************************)
IsDigit(c) == \E i \in 1..10 : Digits[i] = c

DigitVal(c) == (CHOOSE i \in 1..10 : Digits[i] = c) - 1

RECURSIVE DecVal(_)
\* The number a non-empty string of decimal digits denotes.
DecVal(t) ==
    IF Len(t) = 0 THEN 0
    ELSE 10 * DecVal(SubSeq(t, 1, Len(t) - 1)) + DigitVal(t[Len(t)])

RECURSIVE IntToStr(_)
\* fmt's %d of a non-negative int.
IntToStr(n) ==
    IF n < 10 THEN <<Digits[n + 1]>>
    ELSE IntToStr(n \div 10) \o <<Digits[(n % 10) + 1]>>

RECURSIVE SplitSpace(_)
\* strings.Split(s, " "): the pieces between single spaces; one piece, s
\* itself (possibly empty), when s holds no space.
SplitSpace(s) ==
    IF \A i \in 1..Len(s) : s[i] # " " THEN <<s>>
    ELSE LET i == CHOOSE k \in 1..Len(s) :
                      s[k] = " " /\ \A j \in 1..(k - 1) : s[j] # " "
         IN  <<SubSeq(s, 1, i - 1)>> \o SplitSpace(SubSeq(s, i + 1, Len(s)))

\* strconv.ParseFloat(t, 64) on the texts of this model (digits, letters,
\* none of them a spelling of a float such as "inf" or "nan"): a non-empty
\* string of digits is its value, anything else is an error.
ParseFloat(t) ==
    IF Len(t) > 0 /\ \A i \in 1..Len(t) : IsDigit(t[i])
    THEN [err |-> FALSE, val |-> DecVal(t)]
    ELSE [err |-> TRUE, val |-> 0]

UnitMinutes == <<"m", "i", "n", "u", "t", "e", "s">>
UnitHour    == <<"h", "o", "u", "r">>
UnitHours   == <<"h", "o", "u", "r", "s">>

\* fmt.Sprintf("%d %s", val, unit)
Sprintf(val, unit) == IntToStr(val) \o <<" ">> \o unit

(***************************************************************************)
(* Input domains                                                           *)
(***************************************************************************)
\* --cluster values: a safe key, the empty key, a key with a character
\* outside letters, digits, dash and underscore.
KeyInputs == {<<"m", "y", "-", "c", "_", "1">>, <<>>, <<"a", ";", "b">>}

\* --user values.
UserInputs == {<<"b", "o", "b", "7">>, <<>>, <<"b", "'", "o">>}

VersionUniverse == {"4.5.20", "4.5.21", "4.4.9"}

\* --version values; "" is the flag's default.
VersionFlags == {""} \cup VersionUniverse

\* Results of versions.GetAvailableUpgrades.
AvailableUpgradesResults == {<<>>, <<"4.5.21">>, <<"4.5.20", "4.5.21">>}

\* now = time.Now().UTC().Add(10 minutes), formatted.
NowDate == "2020-11-03"
NowTime == "12:10"

\* --schedule-date and --schedule-time values, and what an operator may type.
DateTexts == {"2020-12-24", "24/12/2020"}
TimeTexts == {"23:30", "11pm"}

\* time.Parse("2006-01-02", s) and time.Parse("15:04", s) succeed.
ValidDate(s) == s \in {NowDate, "2020-12-24"}
ValidTime(s) == s \in {NowTime, "23:30"}

ClusterStateReady == "ready"
ClusterStates     == {ClusterStateReady, "installing", "error"}

\* Cluster records ocm.GetCluster may return. The service stores the grace
\* period in minutes.
ClusterRecords ==
    {[state |-> st, gpSet |-> FALSE, gpValue |-> 0, gpUnit |-> <<>>] :
        st \in ClusterStates}
    \cup
    {[state |-> st, gpSet |-> TRUE, gpValue |-> m, gpUnit |-> UnitMinutes] :
        st \in ClusterStates, m \in 0..MaxStoredMinutes}

ScheduledUpgrades == {[version |-> "4.5.19", nextRun |-> "2020-11-20 08:00 UTC"]}

\* The default of --node-drain-grace-period.
DefaultGracePeriod == <<"1">> \o <<" ">> \o UnitHour

\* The options of the interactive node draining prompt.
nodeDrainOptions ==
    << <<"1", "5", " ">> \o UnitMinutes,
       <<"3", "0", " ">> \o UnitMinutes,
       <<"4", "5", " ">> \o UnitMinutes,
       <<"1", " ">> \o UnitHour,
       <<"2", " ">> \o UnitHours,
       <<"4", " ">> \o UnitHours,
       <<"8", " ">> \o UnitHours >>

\* Values a caller may pass as --node-drain-grace-period: well formed ones,
\* a bare number, a non-numeric one, the empty string.
GracePeriodFlags ==
    { DefaultGracePeriod,
      <<"2", " ">> \o UnitHours,
      <<"4", "5", " ">> \o UnitMinutes,
      <<"9", "0", " ">> \o UnitMinutes,
      <<"6", "0">>,
      <<"a", "b", "c", " ">> \o UnitMinutes,
      <<>> }

validRoles        == <<"cluster-admins", "dedicated-admins">>
validRolesAliases == <<"cluster-admin", "dedicated-admin">>

\* Command lines of revoke user: the positional arguments.
ArgvInputs ==
    { <<>>, <<"cluster-admins", "dedicated-admins">> }
    \cup { <<r>> : r \in {"cluster-admin", "cluster-admins", "dedicated-admin",
                          "dedicated-admins", "dedicate-admins", "admin"} }

(***************************************************************************)
(* Pure parts of the handlers                                              *)
(***************************************************************************)
\* ocm.IsValidClusterKey / c.IsValidClusterKey: non-empty, and only letters,
\* digits, dashes and underscores.
IsValidClusterKey(k) ==
    /\ Len(k) > 0
    /\ \A i \in 1..Len(k) : k[i] \in Letters \/ IsDigit(k[i]) \/ k[i] \in {"-", "_"}

\* ocm.IsValidUsername: the same alphabet.
IsValidUsername(u) ==
    /\ Len(u) > 0
    /\ \A i \in 1..Len(u) : u[i] \in Letters \/ IsDigit(u[i]) \/ u[i] \in {"-", "_"}

IsReadyAlways(c) == TRUE

\* cluster.State() == cmv1.ClusterStateReady
IsReady(c) == c.state = ClusterStateReady

HasScheduledUpgradeNever(su) == FALSE

\* scheduledUpgrade != nil
HasScheduledUpgrade(su) == su # Nil

ValidVersionAny(v, avail) == TRUE

\* The loop over availableUpgrades that sets validVersion.
ValidVersion(v, avail) == \E i \in 1..Len(avail) : avail[i] = v

\* The cluster's stored grace period as text; "" when the cluster has none.
RenderGracePeriod(c) ==
    IF ~c.gpSet THEN <<>>
    ELSE IF c.gpValue >= 60
         THEN LET val == c.gpValue \div 60
              IN  Sprintf(val, IF val = 1 THEN UnitHour ELSE UnitHours)
         ELSE Sprintf(c.gpValue, c.gpUnit)

UseFlagValueOnlyWhenUnset(rendered, changed) == rendered = <<>>

\* nodeDrainGracePeriod == "" || cmd.Flags().Changed("node-drain-grace-period")
UseFlagValue(rendered, changed) == rendered = <<>> \/ changed

\* The grace period before any prompt.
ResolveGracePeriod(c, flag, changed) ==
    IF UseFlagValue(RenderGracePeriod(c), changed) THEN flag ELSE RenderGracePeriod(c)

\* Split, ParseFloat, index [1] and the hours rule. "error" is the reported
\* parse error, "panic" the index out of range on a text with no space.
ParseGracePeriod(s) ==
    LET nodeDrainParsed == SplitSpace(s)
        f == ParseFloat(nodeDrainParsed[1])
    IN  IF f.err THEN [outcome |-> "error", val |-> 0]
        ELSE IF Len(nodeDrainParsed) < 2 THEN [outcome |-> "panic", val |-> 0]
        ELSE [outcome |-> "ok",
              val |-> IF nodeDrainParsed[2] = UnitHours \/ nodeDrainParsed[2] = UnitHour
                      THEN f.val * 60
                      ELSE f.val]

RECURSIVE ApplyAliases(_, _)
\* The loop over validRolesAliases, from alias i on: role = role + "s" when
\* it equals the alias.
ApplyAliases(r, i) ==
    IF i > Len(validRolesAliases) THEN r
    ELSE ApplyAliases(IF r = validRolesAliases[i] THEN r \o "s" ELSE r, i + 1)

\* The loop over validRoles that sets isRoleValid.
RoleIsValid(r) == \E i \in 1..Len(validRoles) : validRoles[i] = r

(***************************************************************************)
(* Control                                                                 *)
(***************************************************************************)
\* os.Exit(code): the process ends at once; deferred functions do not run.
OsExit(code) ==
    /\ exitCode' = code
    /\ exitAt' = pc
    /\ pc' = "done"
    /\ conn' = conn

\* run returns: the deferred function closes the connection, exit status 0.
Return ==
    /\ exitCode' = 0
    /\ exitAt' = pc
    /\ pc' = "done"
    /\ conn' = IF conn = "open" THEN "closed" ELSE conn

\* A run-time panic unwinds run: deferred functions run, exit status 2.
Panic ==
    /\ exitCode' = 2
    /\ exitAt' = pc
    /\ pc' = "done"
    /\ conn' = IF conn = "open" THEN "closed" ELSE conn

Goto(l) ==
    /\ pc' = l
    /\ UNCHANGED <<exitCode, exitAt, conn>>

upgradeLocals == <<cluster, scheduledUpgrade, availableUpgrades, version, nextRun,
                   gpFlag, gpChanged, nodeDrainGracePeriod, nodeDrainValue>>
revokeLocals  == <<role, isRoleValid, confirmed>>
remote        == <<calls, policies>>
fixed         == <<cmd, interactive>>

(***************************************************************************)
(* upgrade cluster                                                         *)
(***************************************************************************)
U_CheckClusterKey ==
    /\ pc = "u_key"
    /\ \E clusterKey \in KeyInputs :
         IF ~IsValidClusterKey(clusterKey) THEN OsExit(1) ELSE Goto("u_aws")
    /\ UNCHANGED <<fixed, remote, upgradeLocals, revokeLocals>>

U_CreateAWSClient ==
    /\ pc = "u_aws"
    /\ \E err \in BOOLEAN : IF err THEN OsExit(1) ELSE Goto("u_creator")
    /\ UNCHANGED <<fixed, remote, upgradeLocals, revokeLocals>>

U_GetCreator ==
    /\ pc = "u_creator"
    /\ \E err \in BOOLEAN : IF err THEN OsExit(1) ELSE Goto("u_conn")
    /\ UNCHANGED <<fixed, remote, upgradeLocals, revokeLocals>>

\* ocm.NewConnection()...Build(), and the defer of its Close.
U_BuildConnection ==
    /\ pc = "u_conn"
    /\ \E err \in BOOLEAN :
         IF err THEN OsExit(1)
         ELSE /\ conn' = "open"
              /\ pc' = "u_getCluster"
              /\ UNCHANGED <<exitCode, exitAt>>
    /\ UNCHANGED <<fixed, remote, upgradeLocals, revokeLocals>>

U_GetCluster ==
    /\ pc = "u_getCluster"
    /\ \E err \in BOOLEAN :
         IF err THEN OsExit(1) /\ cluster' = cluster
         ELSE \E c \in ClusterRecords : cluster' = c /\ Goto("u_ready")
    /\ UNCHANGED <<fixed, remote, scheduledUpgrade, availableUpgrades, version, nextRun,
                   gpFlag, gpChanged, nodeDrainGracePeriod, nodeDrainValue, revokeLocals>>

U_CheckReady ==
    /\ pc = "u_ready"
    /\ IF ~IsReady(cluster) THEN OsExit(1) ELSE Goto("u_sched")
    /\ UNCHANGED <<fixed, remote, upgradeLocals, revokeLocals>>

U_GetScheduledUpgrade ==
    /\ pc = "u_sched"
    /\ \E err \in BOOLEAN :
         IF err THEN OsExit(1) /\ scheduledUpgrade' = scheduledUpgrade
         ELSE \E su \in {Nil} \cup ScheduledUpgrades :
                /\ scheduledUpgrade' = su
                /\ IF HasScheduledUpgrade(su) THEN OsExit(0) ELSE Goto("u_avail")
    /\ UNCHANGED <<fixed, remote, cluster, availableUpgrades, version, nextRun,
                   gpFlag, gpChanged, nodeDrainGracePeriod, nodeDrainValue, revokeLocals>>

U_GetAvailableUpgrades ==
    /\ pc = "u_avail"
    /\ \E err \in BOOLEAN :
         IF err THEN OsExit(1) /\ availableUpgrades' = availableUpgrades
         ELSE \E a \in AvailableUpgradesResults :
                /\ availableUpgrades' = a
                /\ IF Len(a) = 0 THEN OsExit(0) ELSE Goto("u_version")
    /\ UNCHANGED <<fixed, remote, cluster, scheduledUpgrade, version, nextRun,
                   gpFlag, gpChanged, nodeDrainGracePeriod, nodeDrainValue, revokeLocals>>

\* version := args.version, and the Version prompt. The prompt answers with
\* an error or with a text; which texts it can answer is the prompt
\* library's business, so any version is a possible answer.
U_ResolveVersion ==
    /\ pc = "u_version"
    /\ \E flag \in VersionFlags :
         IF flag = "" \/ interactive
         THEN LET default == IF flag = "" THEN availableUpgrades[1] ELSE flag
              IN  \E err \in BOOLEAN :
                    IF err THEN OsExit(1) /\ version' = ""
                    ELSE \E answer \in VersionUniverse \cup {default} :
                           version' = answer /\ Goto("u_valid")
         ELSE version' = flag /\ Goto("u_valid")
    /\ UNCHANGED <<fixed, remote, cluster, scheduledUpgrade, availableUpgrades, nextRun,
                   gpFlag, gpChanged, nodeDrainGracePeriod, nodeDrainValue, revokeLocals>>

U_CheckVersion ==
    /\ pc = "u_valid"
    /\ IF ~ValidVersion(version, availableUpgrades) THEN OsExit(1) ELSE Goto("u_time")
    /\ UNCHANGED <<fixed, remote, upgradeLocals, revokeLocals>>

\* The schedule: the defaults from now, the two prompts when interactive,
\* and the final time.Parse of "<date> <time>".
U_ResolveSchedule ==
    /\ pc = "u_time"
    /\ \E dateFlag \in {""} \cup DateTexts, timeFlag \in {""} \cup TimeTexts :
         LET scheduleDate == IF dateFlag = "" THEN NowDate ELSE dateFlag
             scheduleTime == IF timeFlag = "" THEN NowTime ELSE timeFlag
             parses       == ValidDate(scheduleDate) /\ ValidTime(scheduleTime)
         IN  IF interactive
             THEN \* the prompts start from the flags when they parse, else from now
                  \E dateErr \in BOOLEAN, timeErr \in BOOLEAN,
                     dateAnswer \in DateTexts \cup {IF parses THEN scheduleDate ELSE NowDate},
                     timeAnswer \in TimeTexts \cup {IF parses THEN scheduleTime ELSE NowTime} :
                    IF dateErr \/ ~ValidDate(dateAnswer) THEN OsExit(1) /\ nextRun' = nextRun
                    ELSE IF timeErr \/ ~ValidTime(timeAnswer)
                         THEN OsExit(1) /\ nextRun' = nextRun
                    ELSE /\ nextRun' = [date |-> dateAnswer, time |-> timeAnswer]
                         /\ Goto("u_grace")
             ELSE IF ~parses THEN OsExit(1) /\ nextRun' = nextRun
                  ELSE /\ nextRun' = [date |-> scheduleDate, time |-> scheduleTime]
                       /\ Goto("u_grace")
    /\ UNCHANGED <<fixed, remote, cluster, scheduledUpgrade, availableUpgrades, version,
                   gpFlag, gpChanged, nodeDrainGracePeriod, nodeDrainValue, revokeLocals>>

\* The grace period text: the cluster's, or the flag's, then the prompt when
\* interactive. An unchanged flag holds its default.
U_ResolveGracePeriod ==
    /\ pc = "u_grace"
    /\ \E changed \in BOOLEAN, flag \in GracePeriodFlags :
         /\ ~changed => flag = DefaultGracePeriod
         /\ gpChanged' = changed
         /\ gpFlag' = flag
         /\ LET resolved == ResolveGracePeriod(cluster, flag, changed)
            IN  IF interactive
                THEN \E err \in BOOLEAN :
                       IF err THEN OsExit(1) /\ nodeDrainGracePeriod' = <<>>
                       ELSE \E answer \in Range(nodeDrainOptions) \cup {resolved} :
                              nodeDrainGracePeriod' = answer /\ Goto("u_parse")
                ELSE nodeDrainGracePeriod' = resolved /\ Goto("u_parse")
    /\ UNCHANGED <<fixed, remote, cluster, scheduledUpgrade, availableUpgrades, version,
                   nextRun, nodeDrainValue, revokeLocals>>

U_ParseGracePeriod ==
    /\ pc = "u_parse"
    /\ LET parsed == ParseGracePeriod(nodeDrainGracePeriod)
       IN  IF parsed.outcome = "error" THEN OsExit(1) /\ nodeDrainValue' = nodeDrainValue
           ELSE IF parsed.outcome = "panic" THEN Panic /\ nodeDrainValue' = nodeDrainValue
           ELSE nodeDrainValue' = parsed.val /\ Goto("u_spec")
    /\ UNCHANGED <<fixed, remote, cluster, scheduledUpgrade, availableUpgrades, version,
                   nextRun, gpFlag, gpChanged, nodeDrainGracePeriod, revokeLocals>>

\* cmv1.NewCluster().NodeDrainGracePeriod(...).Build()
U_BuildClusterSpec ==
    /\ pc = "u_spec"
    /\ \E err \in BOOLEAN : IF err THEN OsExit(1) ELSE Goto("u_policy")
    /\ UNCHANGED <<fixed, remote, upgradeLocals, revokeLocals>>

\* upgradePolicyBuilder.Build()
U_BuildUpgradePolicy ==
    /\ pc = "u_policy"
    /\ \E err \in BOOLEAN : IF err THEN OsExit(1) ELSE Goto("u_add")
    /\ UNCHANGED <<fixed, remote, upgradeLocals, revokeLocals>>

AfterAddNoAbort(err) == Goto("u_update")

\* if err != nil { ...; os.Exit(1) } after the policy creation call
AfterAdd(err) == IF err THEN OsExit(1) ELSE Goto("u_update")

\* UpgradePolicies().Add().Body(upgradePolicy).Send()
U_AddUpgradePolicy ==
    /\ pc = "u_add"
    /\ \E err \in BOOLEAN :
         /\ calls' = Append(calls, [op  |-> "AddUpgradePolicy",
                                    arg |-> [scheduleType |-> "manual",
                                             version |-> version,
                                             nextRun |-> nextRun],
                                    ok  |-> ~err])
         /\ policies' = IF err THEN policies ELSE policies \cup {version}
         /\ AfterAdd(err)
    /\ UNCHANGED <<fixed, upgradeLocals, revokeLocals>>

\* Cluster(cluster.ID()).Update().Body(clusterSpec).Send()
U_UpdateCluster ==
    /\ pc = "u_update"
    /\ \E err \in BOOLEAN :
         /\ calls' = Append(calls, [op  |-> "UpdateCluster",
                                    arg |-> [value |-> nodeDrainValue, unit |-> "minutes"],
                                    ok  |-> ~err])
         /\ IF err THEN OsExit(1) ELSE Goto("u_return")
    /\ UNCHANGED <<fixed, policies, upgradeLocals, revokeLocals>>

\* The success message and the end of run.
U_Return ==
    /\ pc = "u_return"
    /\ Return
    /\ UNCHANGED <<fixed, remote, upgradeLocals, revokeLocals>>

(***************************************************************************)
(* revoke user ROLE                                                        *)
(***************************************************************************)
R_CheckClusterKey ==
    /\ pc = "r_key"
    /\ \E clusterKey \in KeyInputs :
         IF ~IsValidClusterKey(clusterKey) THEN OsExit(1) ELSE Goto("r_user")
    /\ UNCHANGED <<fixed, remote, upgradeLocals, revokeLocals>>

R_CheckUsername ==
    /\ pc = "r_user"
    /\ \E username \in UserInputs :
         IF ~IsValidUsername(username) THEN OsExit(1) ELSE Goto("r_role")
    /\ UNCHANGED <<fixed, remote, upgradeLocals, revokeLocals>>

\* The argument count check, role := argv[0], the alias loop, the validity
\* loop and the report of an invalid role. The report is reporter.Errorf
\* alone: no os.Exit follows it.
R_CheckRole ==
    /\ pc = "r_role"
    /\ \E argv \in ArgvInputs :
         IF Len(argv) # 1
         THEN OsExit(1) /\ UNCHANGED <<role, isRoleValid>>
         ELSE /\ role' = ApplyAliases(argv[1], 1)
              /\ isRoleValid' = RoleIsValid(role')
              /\ Goto("r_aws")
    /\ UNCHANGED <<fixed, remote, upgradeLocals, confirmed>>

R_CreateAWSClient ==
    /\ pc = "r_aws"
    /\ \E err \in BOOLEAN : IF err THEN OsExit(1) ELSE Goto("r_creator")
    /\ UNCHANGED <<fixed, remote, upgradeLocals, revokeLocals>>

R_GetCreator ==
    /\ pc = "r_creator"
    /\ \E err \in BOOLEAN : IF err THEN OsExit(1) ELSE Goto("r_conn")
    /\ UNCHANGED <<fixed, remote, upgradeLocals, revokeLocals>>

\* ocm.NewConnection()...Build(), and the defer of its Close.
R_BuildConnection ==
    /\ pc = "r_conn"
    /\ \E err \in BOOLEAN :
         IF err THEN OsExit(1)
         ELSE /\ conn' = "open"
              /\ pc' = "r_getCluster"
              /\ UNCHANGED <<exitCode, exitAt>>
    /\ UNCHANGED <<fixed, remote, upgradeLocals, revokeLocals>>

R_GetCluster ==
    /\ pc = "r_getCluster"
    /\ \E err \in BOOLEAN :
         IF err THEN OsExit(1) /\ cluster' = cluster
         ELSE \E c \in ClusterRecords : cluster' = c /\ Goto("r_confirm")
    /\ UNCHANGED <<fixed, remote, scheduledUpgrade, availableUpgrades, version, nextRun,
                   gpFlag, gpChanged, nodeDrainGracePeriod, nodeDrainValue, revokeLocals>>

AfterConfirmIgnored(yes) == Goto("r_delete")

\* if !confirm.Confirm(...) { os.Exit(0) }
AfterConfirm(yes) == IF ~yes THEN OsExit(0) ELSE Goto("r_delete")

R_Confirm ==
    /\ pc = "r_confirm"
    /\ \E yes \in BOOLEAN :
         /\ confirmed' = IF yes THEN "yes" ELSE "no"
         /\ AfterConfirm(yes)
    /\ UNCHANGED <<fixed, remote, upgradeLocals, role, isRoleValid>>

\* Groups().Group(role).Users().User(username).Delete().Send(); on success
\* run returns.
R_DeleteUser ==
    /\ pc = "r_delete"
    /\ \E err \in BOOLEAN :
         /\ calls' = Append(calls, [op |-> "DeleteUser", arg |-> role, ok |-> ~err])
         /\ IF err THEN OsExit(1) ELSE Return
    /\ UNCHANGED <<fixed, policies, upgradeLocals, revokeLocals>>

(***************************************************************************)
(* Specification                                                           *)
(***************************************************************************)
Init ==
    /\ cmd \in {"upgrade", "revoke"}
    /\ interactive \in BOOLEAN
    /\ pc = IF cmd = "upgrade" THEN "u_key" ELSE "r_key"
    /\ exitCode = Running
    /\ exitAt = ""
    /\ conn = "none"
    /\ calls = <<>>
    /\ policies = {}
    /\ cluster = Nil
    /\ scheduledUpgrade = Nil
    /\ availableUpgrades = <<>>
    /\ version = ""
    /\ nextRun = Nil
    /\ gpFlag = DefaultGracePeriod
    /\ gpChanged = FALSE
    /\ nodeDrainGracePeriod = <<>>
    /\ nodeDrainValue = 0
    /\ role = ""
    /\ isRoleValid = FALSE
    /\ confirmed = "unasked"

Next ==
    \/ U_CheckClusterKey
    \/ U_CreateAWSClient
    \/ U_GetCreator
    \/ U_BuildConnection
    \/ U_GetCluster
    \/ U_CheckReady
    \/ U_GetScheduledUpgrade
    \/ U_GetAvailableUpgrades
    \/ U_ResolveVersion
    \/ U_CheckVersion
    \/ U_ResolveSchedule
    \/ U_ResolveGracePeriod
    \/ U_ParseGracePeriod
    \/ U_BuildClusterSpec
    \/ U_BuildUpgradePolicy
    \/ U_AddUpgradePolicy
    \/ U_UpdateCluster
    \/ U_Return
    \/ R_CheckClusterKey
    \/ R_CheckUsername
    \/ R_CheckRole
    \/ R_CreateAWSClient
    \/ R_GetCreator
    \/ R_BuildConnection
    \/ R_GetCluster
    \/ R_Confirm
    \/ R_DeleteUser

Spec == Init /\ [][Next]_vars

(***************************************************************************)
(* Properties                                                              *)
(***************************************************************************)
Done == pc = "done"

\* The position the run is at, or terminated at.
At == IF Done THEN exitAt ELSE pc

NoCall(op) == \A i \in 1..Len(calls) : calls[i].op # op

NoMutation == calls = <<>> /\ policies = {}

\* Positions of revoke user after the role has been canonicalized and checked.
AfterRoleCheck == {"r_aws", "r_creator", "r_conn", "r_getCluster", "r_confirm", "r_delete"}

\* Positions of upgrade cluster from the version validity check on.
FromVersionCheck == {"u_valid", "u_time", "u_grace", "u_parse", "u_spec", "u_policy",
                     "u_add", "u_update", "u_return"}

\* Positions of upgrade cluster once the grace period text is resolved.
FromGraceParse == {"u_parse", "u_spec", "u_policy", "u_add", "u_update", "u_return"}

\* C1: revoke user rejects every role that is not cluster-admins or
\* dedicated-admins after canonicalization: the run ends with exit status 1
\* and sends no delete-membership request.
C1_InvalidRoleRejected ==
    (cmd = "revoke" /\ At \in AfterRoleCheck /\ role \notin {"cluster-admins", "dedicated-admins"})
        => /\ NoCall("DeleteUser")
           /\ Done => exitCode = 1

\* C2: in both commands a connection that was opened is closed when the
\* process has terminated, on every path.
C2_ConnectionClosedAtExit ==
    (Done /\ conn # "none") => conn = "closed"

\* C3: upgrade cluster on a cluster that is not Ready ends with exit status 1
\* and sends neither the policy creation nor the cluster update.
C3_NotReadyNoMutation ==
    (cmd = "upgrade" /\ cluster # Nil /\ cluster.state # ClusterStateReady)
        => /\ NoMutation
           /\ pc \in {"u_ready", "done"}
           /\ Done => exitCode = 1

C3_Witness ==
    /\ cmd = "upgrade" /\ Done /\ exitAt = "u_ready" /\ exitCode = 1
    /\ cluster # Nil /\ cluster.state = "installing"
    /\ conn = "open"

\* C4: when the scheduled-upgrade lookup returns an existing upgrade, the
\* run ends with exit status 0 and sends neither the policy creation nor the
\* cluster update.
C4_AlreadyScheduledNoMutation ==
    (cmd = "upgrade" /\ scheduledUpgrade # Nil)
        => /\ NoMutation
           /\ Done
           /\ exitCode = 0

C4_Witness ==
    /\ cmd = "upgrade" /\ Done /\ exitAt = "u_sched" /\ exitCode = 0
    /\ scheduledUpgrade \in ScheduledUpgrades
    /\ cluster # Nil /\ cluster.state = ClusterStateReady

\* C5: a version that reaches the validity check and is not among the
\* available upgrades ends the run there with exit status 1 before any
\* submission; the version of every policy creation call is one of the
\* available upgrades fetched in the run.
C5_InvalidVersionFails ==
    /\ (cmd = "upgrade" /\ At \in FromVersionCheck /\ version \notin Range(availableUpgrades))
          => /\ At = "u_valid"
             /\ NoMutation
             /\ Done => exitCode = 1
    /\ \A i \in 1..Len(calls) :
          calls[i].op = "AddUpgradePolicy"
             => calls[i].arg.version \in Range(availableUpgrades)

C5_Witness ==
    /\ cmd = "upgrade" /\ Done /\ exitAt = "u_valid" /\ exitCode = 1
    /\ version = "4.5.20" /\ availableUpgrades = <<"4.5.21">>
    /\ calls = <<>>

\* C6: the policy creation is sent before the cluster update; a failed
\* policy creation ends the run with exit status 1 and no cluster update; a
\* failed cluster update after a created policy ends the run with exit
\* status 1 and the policy stays; a successful run sends exactly one policy
\* creation, then exactly one cluster update, and ends with exit status 0.
C6_OrderedNonTransactional ==
    cmd = "upgrade" =>
        /\ Len(calls) <= 2
        /\ Len(calls) >= 1 => calls[1].op = "AddUpgradePolicy"
        /\ Len(calls) = 2 => calls[2].op = "UpdateCluster" /\ calls[1].ok
        /\ (Len(calls) >= 1 /\ ~calls[1].ok)
              => Len(calls) = 1 /\ Done /\ exitCode = 1 /\ policies = {}
        /\ (Len(calls) >= 1 /\ calls[1].ok)
              => policies = {calls[1].arg.version}
        /\ (Len(calls) = 2 /\ ~calls[2].ok) => Done /\ exitCode = 1
        /\ (Done /\ exitAt = "u_return")
              => exitCode = 0 /\ Len(calls) = 2 /\ calls[1].ok /\ calls[2].ok
        /\ (Done /\ Len(calls) = 2 /\ calls[2].ok) => exitCode = 0 /\ exitAt = "u_return"

C6_Witness ==
    /\ cmd = "upgrade" /\ Done /\ exitCode = 1 /\ exitAt = "u_update"
    /\ Len(calls) = 2 /\ calls[1].ok /\ ~calls[2].ok
    /\ policies = {version}

\* C7: revoke user sends the delete-membership request only after the
\* confirmation answered yes; when the user declines, the run ends with exit
\* status 0 and sends no delete-membership request.
C7_DeleteOnlyAfterYes ==
    cmd = "revoke" =>
        /\ ~NoCall("DeleteUser") => confirmed = "yes"
        /\ confirmed = "no" => Done /\ exitCode = 0 /\ calls = <<>>

C7_Witness ==
    /\ cmd = "revoke" /\ Done /\ exitAt = "r_confirm" /\ exitCode = 0
    /\ confirmed = "no" /\ calls = <<>>

\* A grace period text that is not "<number> <unit>".
Malformed(s) ==
    LET parts == SplitSpace(s)
    IN  Len(parts) # 2 \/ ParseFloat(parts[1]).err

\* C8: a resolved grace period text that is non-numeric or malformed, such
\* as the bare number "60", ends the run with exit status 1 and sends
\* neither the policy creation nor the cluster update.
C8_MalformedGracePeriodIsFatal ==
    (cmd = "upgrade" /\ Done /\ exitAt \in FromGraceParse /\ Malformed(nodeDrainGracePeriod))
        => exitCode = 1 /\ NoMutation

\* The minutes the texts of GracePeriodFlags stand for, stated case by case:
\* number x 60 for "hour" and "hours", the number itself for "minutes".
FlagMinutes(flag) ==
    CASE flag = <<"1", " ">> \o UnitHour -> 60
      [] flag = <<"2", " ">> \o UnitHours -> 120
      [] flag = <<"4", "5", " ">> \o UnitMinutes -> 45
      [] flag = <<"9", "0", " ">> \o UnitMinutes -> 90
      [] OTHER -> 0 - 1

\* The stored value as the code takes it over: as it is below 60 minutes,
\* in whole hours from 60 minutes on.
StoredMinutes(m) == IF m >= 60 THEN (m \div 60) * 60 ELSE m

\* C9: not interactive, the cluster update carries, in minutes, the flag's
\* value (default "1 hour") when the cluster has no grace period or the
\* flag was passed, and the value taken from the cluster's stored one only
\* when the cluster has one and the flag was not passed.
C9_GracePeriodPrecedence ==
    (cmd = "upgrade" /\ ~interactive) =>
        \A i \in 1..Len(calls) :
            calls[i].op = "UpdateCluster" =>
                /\ calls[i].arg.unit = "minutes"
                /\ calls[i].arg.value =
                      IF ~cluster.gpSet \/ gpChanged
                      THEN FlagMinutes(gpFlag)
                      ELSE StoredMinutes(cluster.gpValue)

C9_Witness ==
    /\ cmd = "upgrade" /\ ~interactive /\ Done /\ exitCode = 0
    /\ cluster.gpSet /\ cluster.gpValue = 30 /\ gpChanged
    /\ gpFlag = <<"2", " ">> \o UnitHours
    /\ Len(calls) = 2 /\ calls[2].arg = [value |-> 120, unit |-> "minutes"]

\* C10: not interactive, with a stored grace period of m minutes and the
\* flag not passed, the cluster update carries exactly m minutes.
C10_StoredGracePeriodRoundTrip ==
    (cmd = "upgrade" /\ ~interactive /\ cluster # Nil /\ cluster.gpSet /\ ~gpChanged) =>
        \A i \in 1..Len(calls) :
            calls[i].op = "UpdateCluster" => calls[i].arg.value = cluster.gpValue

====
